---------------------------- MODULE Spec2Model ----------------------------
(***************************************************************************)
(* study-suite: the cover-letter generator (src/cl_gen.py) and the YouTube *)
(* summarizer / quiz generator (src/yt_assist.py).                         *)
(*                                                                         *)
(* Three specifications share this module:                                 *)
(*   SpecCL     one "Generate Cover Letter" button press after another     *)
(*   SpecYT     "Summarize Video" / "Generate Quiz" button presses         *)
(*   SpecChunk  chunk_text applied to transcripts of a fixed length        *)
(*                                                                         *)
(* Python strings are sequences of one-character strings.  Python values   *)
(* are records [t |-> type name, v |-> payload].  The text a language      *)
(* model returns is represented by what a parser makes of it: either it is *)
(* not well formed, or it is a literal that denotes a value.               *)
(***************************************************************************)
EXTENDS Integers, Sequences, FiniteSets

VARIABLES
    \* ---- src/cl_gen.py: one run of the script body, lines 253-290
    cl_pc,          \* position of the run
    resume_text,    \* line 258
    resume_data,    \* line 261
    letter,         \* line 264
    ats,            \* line 274: what get_ats_score returned
    cl_exc,         \* the exception that ended the run, "" if none
    cl_view,        \* what the page shows, in order
    resume_reply,   \* line 81: the text the resume-extraction call returned
    keyword_reply   \* line 193: the text the keyword-extraction call returned

VARIABLES
    \* ---- src/yt_assist.py: one run of the script body, lines 154-207
    yt_pc,          \* position of the run
    button,         \* the button pressed: "summarize" or "quiz"
    youtube_url,    \* line 154
    video_id,       \* lines 160, 185
    transcript,     \* lines 130, 142: the lengths of the transcript's words
    chunks,         \* lines 131, 143
    store,          \* lines 132, 144
    query,          \* lines 134, 146
    retrieved_texts, \* lines 135, 147
    reply,          \* lines 79, 120: the text the generation call returned
    result,         \* lines 167, 192: summary or quiz
    yt_view,        \* what the page shows, in order
    steps,          \* the pipeline steps this run has started, in order
    completed,      \* the pipeline steps this run has completed, in order
    failed          \* the step whose exception the handler caught, "" if none

VARIABLES
    \* ---- RecursiveCharacterTextSplitter(1000, 150).split_text, line 48
    sp_pc,          \* position in split_text
    si,             \* the next split of the text, and the offset where it starts
    good,           \* _good_splits: a run of splits [lo, hi], and its offset
    job,            \* the splits _merge_splits is merging
    mi,             \* the next split of job
    cur,            \* current_doc: a run of job's splits [lo, hi], and its offset
    total,          \* the length of current_doc
    docs,           \* the chunks _merge_splits has made
    final_chunks    \* the chunks split_text returns

cl_vars == <<cl_pc, resume_text, resume_data, letter, ats, cl_exc, cl_view,
             resume_reply, keyword_reply>>

yt_vars == <<yt_pc, button, youtube_url, video_id, transcript, chunks, store, query,
             retrieved_texts, reply, result, yt_view, steps, completed, failed>>

sp_vars == <<sp_pc, si, good, job, mi, cur, total, docs, final_chunks>>

vars == <<cl_vars, yt_vars, sp_vars>>

(***************************************************************************)
(* Python values                                                           *)
(***************************************************************************)
PyNone == [t |-> "None", v |-> 0]
PyInt(n) == [t |-> "int", v |-> n]
PyStr(s) == [t |-> "str", v |-> s]
PyList(xs) == [t |-> "list", v |-> xs]
PyDict(f) == [t |-> "dict", v |-> f]

Range(s) == {s[i] : i \in 1..Len(s)}

Count(x, s) == Cardinality({i \in 1..Len(s) : s[i] = x})

\* str.lower() on the letters the model's texts use
LowerChar(c) ==
    CASE c = "P" -> "p" [] c = "S" -> "s" [] c = "Q" -> "q" [] c = "L" -> "l"
      [] c = "G" -> "g" [] OTHER -> c

Lower(s) == [i \in 1..Len(s) |-> LowerChar(s[i])]

\* a in b, for strings
Contains(b, a) ==
    \E i \in 0..(Len(b) - Len(a)) : SubSeq(b, i + 1, i + Len(a)) = a

\* " ".join(strs) for a sequence of strings
RECURSIVE JoinStrs(_)
JoinStrs(strs) ==
    IF Len(strs) = 0 THEN <<>>
    ELSE IF Len(strs) = 1 THEN strs[1]
    ELSE strs[1] \o <<" ">> \o JoinStrs(Tail(strs))

\* " ".join(x) for a Python value x: [exc, s]
JoinSpace(x) ==
    IF x.t = "list"
    THEN IF \A i \in 1..Len(x.v) : x.v[i].t = "str"
         THEN [exc |-> "", s |-> JoinStrs([i \in 1..Len(x.v) |-> x.v[i].v])]
         ELSE [exc |-> "TypeError", s |-> <<>>]
    ELSE IF x.t = "str"
    THEN [exc |-> "", s |-> JoinStrs([i \in 1..Len(x.v) |-> <<x.v[i]>>])]
    ELSE [exc |-> "TypeError", s |-> <<>>]

(***************************************************************************)
(* Texts returned by the language model                                    *)
(***************************************************************************)
Malformed == [syntax |-> "invalid", denotes |-> PyNone]
Literal(v) == [syntax |-> "literal", denotes |-> v]
\* no call made yet
NoReply == [syntax |-> "none", denotes |-> PyNone]

\* json.loads(text) / eval(text): [exc, value]
json_loads(text) ==
    IF text.syntax = "literal"
    THEN [exc |-> "", value |-> text.denotes]
    ELSE [exc |-> "JSONDecodeError", value |-> PyNone]

py_eval(text) ==
    IF text.syntax = "literal"
    THEN [exc |-> "", value |-> text.denotes]
    ELSE [exc |-> "SyntaxError", value |-> PyNone]

(***************************************************************************)
(* IEEE-754 double arithmetic for int((m / n) * 100), 0 <= m <= n.         *)
(* A double is [zero, exp, mant]: mant is 53 bits, most significant first, *)
(* the value is mant * 2^(exp - 52).                                       *)
(***************************************************************************)
MantBits == 53

Zeros(k) == [i \in 1..k |-> 0]

\* m doubled until it reaches n (1 <= m <= n): the binary exponent of m / n
RECURSIVE Normalize(_, _, _)
Normalize(m, n, s) ==
    IF m >= n THEN [shift |-> s, num |-> m] ELSE Normalize(2 * m, n, s + 1)

RECURSIVE Pow2(_)
Pow2(k) == IF k = 0 THEN 1 ELSE 2 * Pow2(k - 1)

\* the w-bit binary numeral of v, and back
IntToBits(v, w) == [j \in 1..w |-> (v \div Pow2(w - j)) % 2]

RECURSIVE BitsToInt(_)
BitsToInt(bits) ==
    IF Len(bits) = 0 THEN 0
    ELSE 2 * BitsToInt(SubSeq(bits, 1, Len(bits) - 1)) + bits[Len(bits)]

\* long division: k further groups of LimbBits bits of r / n (r < n), and the
\* remainder after them
LimbBits == 9

RECURSIVE DivBits(_, _, _)
DivBits(r, n, k) ==
    IF k = 0 THEN [bits |-> <<>>, rem |-> r]
    ELSE LET v == r * Pow2(LimbBits)
             rest == DivBits(v % n, n, k - 1)
         IN  [bits |-> IntToBits(v \div n, LimbBits) \o rest.bits, rem |-> rest.rem]

\* bits + 1 (same width); all ones wrap to zeros
IncBits(bits) ==
    LET zs == {i \in 1..Len(bits) : bits[i] = 0}
        p == IF zs = {} THEN 0 ELSE CHOOSE i \in zs : \A j \in zs : j <= i
    IN  [i \in 1..Len(bits) |-> IF i < p THEN bits[i] ELSE IF i = p THEN 1 ELSE 0]

\* round-to-nearest-even of a bit string that starts with 1, weight 2^exp
RoundBits(bits, sticky, exp) ==
    LET m == SubSeq(bits, 1, MantBits)
        g == bits[MantBits + 1]
        st == sticky \/ \E i \in (MantBits + 2)..Len(bits) : bits[i] = 1
        up == g = 1 /\ (st \/ m[MantBits] = 1)
        inc == IncBits(m)
    IN  IF ~up THEN [zero |-> FALSE, exp |-> exp, mant |-> m]
        ELSE IF inc[1] = 1 THEN [zero |-> FALSE, exp |-> exp, mant |-> inc]
        ELSE [zero |-> FALSE, exp |-> exp + 1, mant |-> <<1>> \o Zeros(MantBits - 1)]

\* m / n
FloatDiv(m, n) ==
    IF m = 0 THEN [zero |-> TRUE, exp |-> 0, mant |-> Zeros(MantBits)]
    ELSE LET nz == Normalize(m, n, 0)
             q == DivBits(nz.num - n, n, MantBits \div LimbBits + 1)
         IN  RoundBits(<<1>> \o q.bits, q.rem # 0, 0 - nz.shift)

\* bits * 100 + carry, as a bit string 7 bits wider, LimbBits bits at a time
\* from the last bit on
RECURSIVE MulBits100(_, _)
MulBits100(bits, carry) ==
    IF Len(bits) = 0 THEN IntToBits(carry, 7)
    ELSE LET k == Len(bits)
             lo == IF k > LimbBits THEN k - LimbBits + 1 ELSE 1
             v == BitsToInt(SubSeq(bits, lo, k)) * 100 + carry
             w == k - lo + 1
         IN  MulBits100(SubSeq(bits, 1, lo - 1), v \div Pow2(w))
                 \o IntToBits(v % Pow2(w), w)

\* x * 100
FloatMul100(x) ==
    IF x.zero THEN x
    ELSE LET p == MulBits100(x.mant, 0)
             lead == CHOOSE i \in 1..Len(p) :
                        p[i] = 1 /\ \A j \in 1..(i - 1) : p[j] = 0
         IN  RoundBits(SubSeq(p, lead, Len(p)), FALSE,
                       x.exp + (Len(p) - lead) - (MantBits - 1))

\* int(x) for a double 0 <= x < 1024
FloatToInt(x) ==
    IF x.zero \/ x.exp < 0 THEN 0 ELSE BitsToInt(SubSeq(x.mant, 1, x.exp + 1))

(***************************************************************************)
(* src/cl_gen.py                                                           *)
(***************************************************************************)
Python == <<"P", "y", "t", "h", "o", "n">>
SQL == <<"S", "Q", "L">>
Leadership == <<"L", "e", "a", "d", "e", "r", "s", "h", "i", "p">>
Go == <<"G", "o">>
YearsOfPython ==
    <<"5", " ", "y", "e", "a", "r", "s", " ", "o", "f", " ", "p", "y", "t", "h",
      "o", "n", " ", "a", "n", "d", " ", "s", "q", "l", " ", "e", "x", "p", "e",
      "r", "i", "e", "n", "c", "e">>
GoogleIntern == <<"G", "o", "o", "g", "l", "e", " ", "i", "n", "t", "e", "r", "n">>

Categories == {"skills", "experience", "achievements", "education", "projects"}

\* lines 90-96
EmptyTemplate == PyDict([c \in Categories |-> PyList(<<>>)])

\* d[key] for a str key: [exc, value]
Subscript(d, key) ==
    IF d.t # "dict" THEN [exc |-> "TypeError", value |-> PyNone]
    ELSE IF key \notin DOMAIN d.v THEN [exc |-> "KeyError", value |-> PyNone]
    ELSE [exc |-> "", value |-> d.v[key]]

\* the first exception of a sequence of evaluations, "" if none raised
FirstExc(excs) ==
    IF \A i \in 1..Len(excs) : excs[i] = "" THEN ""
    ELSE excs[CHOOSE i \in 1..Len(excs) :
                  excs[i] # "" /\ \A j \in 1..(i - 1) : excs[j] = ""]

\* lines 36-38: the pages' texts in order, "" for a page without text
RECURSIVE PagesText(_)
PagesText(pages) ==
    IF Len(pages) = 0 THEN <<>>
    ELSE (IF pages[1].t = "None" THEN <<>> ELSE pages[1].v) \o PagesText(Tail(pages))

\* lines 29-45; uploaded_file is None, a PDF with its pages, or a text file
\* whose read() may raise
extract_resume_text(uploaded_file) ==
    IF uploaded_file.kind = "none" THEN <<>>
    ELSE IF uploaded_file.kind = "pdf" THEN PagesText(uploaded_file.pages)
    ELSE IF uploaded_file.readable THEN PagesText(uploaded_file.pages)
    ELSE <<>>

\* lines 81-98
parse_resume_to_json(response) ==
    LET r == json_loads(response)
    IN  IF r.exc = "" THEN r.value ELSE EmptyTemplate

\* lines 120-158: the prompt reads the five categories in this order
generate_cover_letter(data, response) ==
    LET exc == FirstExc(<<Subscript(data, "skills").exc,
                          Subscript(data, "experience").exc,
                          Subscript(data, "achievements").exc,
                          Subscript(data, "education").exc,
                          Subscript(data, "projects").exc>>)
    IN  [exc |-> exc, letter |-> IF exc = "" THEN response ELSE <<>>]

\* iterating a Python value: [exc, items]; the values iterated here are
\* lists, strings, numbers and None
Iterate(x) ==
    IF x.t = "list" THEN [exc |-> "", items |-> x.v]
    ELSE IF x.t = "str"
    THEN [exc |-> "", items |-> [i \in 1..Len(x.v) |-> PyStr(<<x.v[i]>>)]]
    ELSE [exc |-> "TypeError", items |-> <<>>]

\* line 204
Matches(items, text) ==
    SelectSeq(items, LAMBDA kw : Contains(text, Lower(kw.v)))

MissingCaseSensitive(items, text) ==
    SelectSeq(items, LAMBDA kw : ~Contains(text, kw.v))

\* line 205
Missing(items, text) ==
    SelectSeq(items, LAMBDA kw : ~Contains(text, Lower(kw.v)))

\* line 207
Score(n_matches, n_keywords) ==
    IF n_keywords > 0
    THEN FloatToInt(FloatMul100(FloatDiv(n_matches, n_keywords)))
    ELSE 0

\* lines 177-209
get_ats_score(data, response) ==
    LET skills == Subscript(data, "skills")
        j1 == JoinSpace(skills.value)
        experience == Subscript(data, "experience")
        j2 == JoinSpace(experience.value)
        projects == Subscript(data, "projects")
        j3 == JoinSpace(projects.value)
        exc1 == FirstExc(<<skills.exc, IF skills.exc = "" THEN j1.exc ELSE "",
                           experience.exc, IF experience.exc = "" THEN j2.exc ELSE "",
                           projects.exc, IF projects.exc = "" THEN j3.exc ELSE "">>)
        text == Lower(j1.s \o <<" ">> \o j2.s \o <<" ">> \o j3.s)
        ev == py_eval(response)
        keywords == IF ev.exc = "" THEN ev.value ELSE PyList(<<>>)
        it == Iterate(keywords)
        exc2 == IF it.exc # "" THEN it.exc
                ELSE IF \E i \in 1..Len(it.items) : it.items[i].t # "str"
                THEN "AttributeError" ELSE ""
        raised == [exc |-> IF exc1 # "" THEN exc1 ELSE exc2, score |-> 0,
                   matches |-> <<>>, missing |-> <<>>, keywords |-> keywords]
    IN  IF exc1 # "" \/ exc2 # "" THEN raised
        ELSE LET matches == Matches(it.items, text)
                 missing == Missing(it.items, text)
             IN  [exc |-> "", score |-> Score(Len(matches), Len(it.items)),
                  matches |-> matches, missing |-> missing, keywords |-> keywords]

(***************************************************************************)
(* Inputs of the cover-letter page                                         *)
(***************************************************************************)
MaxKeywords == 3

Vocabulary == {Python, SQL, Leadership, Go}

\* lines 244-250: the five required fields, each empty or filled
FieldNames == {"contact_person", "your_name", "role", "company_name", "job_description"}
Forms == [FieldNames -> {"", "x"}]

Uploads ==
    <<[kind |-> "none", readable |-> FALSE, pages |-> <<>>],
      [kind |-> "pdf", readable |-> TRUE, pages |-> <<PyStr(YearsOfPython), PyNone>>],
      [kind |-> "txt", readable |-> TRUE, pages |-> <<PyStr(GoogleIntern)>>],
      [kind |-> "txt", readable |-> FALSE, pages |-> <<PyStr(GoogleIntern)>>]>>

Resume(skills, experience, projects) ==
    PyDict([c \in Categories |->
              IF c = "skills" THEN skills
              ELSE IF c = "experience" THEN experience
              ELSE IF c = "projects" THEN projects
              ELSE PyList(<<>>)])

\* what the resume-extraction call may return: not JSON, JSON of the requested
\* shape, JSON of another shape
ResumeReplies ==
    <<Malformed,
      Literal(PyDict([c \in {"skills"} |-> PyList(<<PyStr(Python)>>)])),
      Literal(PyDict([c \in Categories \ {"projects"} |-> PyList(<<>>)])),
      Literal(Resume(PyNone, PyList(<<>>), PyList(<<>>))),
      Literal(Resume(PyStr(Python), PyList(<<>>), PyList(<<>>))),
      Literal(Resume(PyList(<<PyInt(5)>>), PyList(<<>>), PyList(<<>>))),
      Literal(PyList(<<>>)),
      Literal(PyInt(7)),
      Literal(Resume(PyList(<<>>), PyList(<<PyStr(YearsOfPython)>>), PyList(<<>>))),
      Literal(Resume(PyList(<<PyStr(Python)>>), PyList(<<>>), PyList(<<PyStr(GoogleIntern)>>))),
      Literal(Resume(PyList(<<PyStr(SQL), PyStr(Leadership)>>), PyList(<<>>), PyList(<<>>)))>>

\* what the keyword-extraction call may return: a list of strings ...
KeywordLists ==
    UNION {[1..n -> Vocabulary] : n \in 0..MaxKeywords}

ListOfStrs(kws) == PyList([i \in 1..Len(kws) |-> PyStr(kws[i])])

\* ... or something else
OtherKeywordReplies ==
    <<Malformed,
      Literal(PyInt(42)),
      Literal(PyNone),
      Literal(PyStr(Python)),
      Literal(PyStr(<<>>)),
      Literal(PyList(<<PyStr(Python), PyInt(3)>>)),
      Literal(PyList(<<PyInt(3)>>))>>

LetterReplies == {<<"D", "e", "a", "r">>}

(***************************************************************************)
(* The cover-letter page, lines 253-290.  Streamlit runs the script body   *)
(* once per button press; nothing is kept between runs.                    *)
(***************************************************************************)
CLInit ==
    /\ cl_pc = "idle"
    /\ resume_text = <<>>
    /\ resume_data = PyNone
    /\ letter = <<>>
    /\ ats = [exc |-> "", score |-> 0, matches |-> <<>>, missing |-> <<>>,
              keywords |-> PyNone]
    /\ cl_exc = ""
    /\ cl_view = <<>>
    /\ resume_reply = NoReply
    /\ keyword_reply = NoReply

\* lines 253-258: the button is pressed
CLPress(form, uploaded_file) ==
    /\ cl_pc \in {"idle", "done", "crashed"}
    /\ resume_data' = PyNone
    /\ letter' = <<>>
    /\ ats' = [exc |-> "", score |-> 0, matches |-> <<>>, missing |-> <<>>,
               keywords |-> PyNone]
    /\ cl_exc' = ""
    /\ resume_reply' = NoReply
    /\ keyword_reply' = NoReply
    /\ IF \E f \in FieldNames : form[f] = ""
       THEN /\ cl_view' = <<"error: Please fill out all fields and upload a resume.">>
            /\ resume_text' = <<>>
            /\ cl_pc' = "done"
       ELSE /\ cl_view' = <<>>
            /\ resume_text' = extract_resume_text(uploaded_file)
            /\ cl_pc' = "parse"
    /\ UNCHANGED <<yt_vars, sp_vars>>

\* line 261
CLParse(response) ==
    /\ cl_pc = "parse"
    /\ resume_reply' = response
    /\ resume_data' = parse_resume_to_json(response)
    /\ cl_pc' = "letter"
    /\ UNCHANGED <<resume_text, letter, ats, cl_exc, cl_view, keyword_reply>>
    /\ UNCHANGED <<yt_vars, sp_vars>>

\* lines 264-271; an exception is not caught anywhere: the run ends there
CLLetter(response) ==
    /\ cl_pc = "letter"
    /\ LET r == generate_cover_letter(resume_data, response)
       IN  IF r.exc # ""
           THEN /\ cl_exc' = r.exc
                /\ cl_view' = <<"exception">>
                /\ cl_pc' = "crashed"
                /\ UNCHANGED letter
           ELSE /\ letter' = r.letter
                /\ cl_pc' = "ats"
                /\ UNCHANGED <<cl_exc, cl_view>>
    /\ UNCHANGED <<resume_text, resume_data, ats, resume_reply, keyword_reply>>
    /\ UNCHANGED <<yt_vars, sp_vars>>

\* lines 274-290
CLScore(response) ==
    /\ cl_pc = "ats"
    /\ keyword_reply' = response
    /\ LET r == get_ats_score(resume_data, response)
       IN  /\ ats' = r
           /\ IF r.exc # ""
              THEN /\ cl_exc' = r.exc
                   /\ cl_view' = <<"exception">>
                   /\ cl_pc' = "crashed"
              ELSE /\ cl_view' = <<"subheader: Your Cover Letter", "letter",
                                   "subheader: ATS Keyword Match Score", "metric: Score",
                                   "Matched Keywords", "Missing Keywords",
                                   "download: cover_letter.pdf">>
                   /\ cl_pc' = "done"
                   /\ UNCHANGED cl_exc
    /\ UNCHANGED <<resume_text, resume_data, letter, resume_reply>>
    /\ UNCHANGED <<yt_vars, sp_vars>>

CLNext ==
    \/ \E form \in Forms, u \in 1..Len(Uploads) : CLPress(form, Uploads[u])
    \/ \E i \in 1..Len(ResumeReplies) : CLParse(ResumeReplies[i])
    \/ \E response \in LetterReplies : CLLetter(response)
    \/ \E kws \in KeywordLists : CLScore(Literal(ListOfStrs(kws)))
    \/ \E i \in 1..Len(OtherKeywordReplies) : CLScore(OtherKeywordReplies[i])


(***************************************************************************)
(* Claims about the cover-letter page                                      *)
(***************************************************************************)
\* get_ats_score returned normally
ScoreReturned == cl_pc = "done" /\ keyword_reply # NoReply

\* C1: when the keyword-extraction call produced a list K, the matched and
\* missing lists get_ats_score returns partition K: every keyword of K is in
\* exactly one of the two lists, as often as it is in K, and the lists hold
\* nothing that is not in K.
C1_Partition ==
    (ScoreReturned /\ ats.keywords.t = "list") =>
        LET K == ats.keywords.v
        IN  /\ \A i \in 1..Len(K) :
                   /\ Count(K[i], ats.matches) + Count(K[i], ats.missing) = Count(K[i], K)
                   /\ ~(K[i] \in Range(ats.matches) /\ K[i] \in Range(ats.missing))
            /\ Range(ats.matches) \cup Range(ats.missing) \subseteq Range(K)

\* a returned score for a list with a repeated keyword, some matched, some missing
C1_Witness ==
    /\ ScoreReturned
    /\ ats.keywords.t = "list"
    /\ Len(ats.keywords.v) >= 3
    /\ Len(ats.matches) >= 2
    /\ Len(ats.missing) >= 1
    /\ \E i, j \in 1..Len(ats.keywords.v) : i # j /\ ats.keywords.v[i] = ats.keywords.v[j]

\* round(a / b): to the nearest integer, a tie to the even one
Round(a, b) ==
    LET q == a \div b
        r == a % b
    IN  IF 2 * r < b THEN q
        ELSE IF 2 * r > b THEN q + 1
        ELSE IF q % 2 = 0 THEN q ELSE q + 1

\* C2: the score get_ats_score returns is round(100 * |matched| / |keywords|),
\* 0 for an empty keyword list; with keywords Python, SQL, Leadership and the
\* text "5 years of python and sql experience" it returns matched Python, SQL,
\* missing Leadership and score 67.
C2_RoundedScore ==
    (ScoreReturned /\ ats.keywords.t = "list") =>
        LET K == ats.keywords.v
        IN  /\ ats.score = IF Len(K) = 0 THEN 0 ELSE Round(100 * Len(ats.matches), Len(K))
            /\ ( /\ K = <<PyStr(Python), PyStr(SQL), PyStr(Leadership)>>
                 /\ resume_data = Resume(PyList(<<>>), PyList(<<PyStr(YearsOfPython)>>),
                                         PyList(<<>>)) )
               => /\ ats.matches = <<PyStr(Python), PyStr(SQL)>>
                  /\ ats.missing = <<PyStr(Leadership)>>
                  /\ ats.score = 67

\* the value denotes a list of strings
IsListOfStrs(x) == x.t = "list" /\ \A i \in 1..Len(x.v) : x.v[i].t = "str"

\* the resume data has the five categories, each a list of strings
WellFormedResume(data) ==
    /\ data.t = "dict"
    /\ DOMAIN data.v = Categories
    /\ \A c \in Categories : IsListOfStrs(data.v[c])

\* C3: when the text of the keyword-extraction call does not denote a list of
\* strings (it does not parse, or parses to something else), get_ats_score
\* returns score 0 with empty matched and missing lists and raises nothing.
C3_FailsClosed ==
    ( /\ cl_pc \in {"done", "crashed"}
      /\ keyword_reply # NoReply
      /\ WellFormedResume(resume_data)
      /\ ~(keyword_reply.syntax = "literal" /\ IsListOfStrs(keyword_reply.denotes)) )
    => /\ cl_pc = "done"
       /\ ats.exc = ""
       /\ ats.score = 0
       /\ ats.matches = <<>>
       /\ ats.missing = <<>>

\* C4: what parse_resume_to_json returns has all five categories, each a
\* sequence (all empty for a reply that is not JSON), so that the later steps
\* never fail on an absent category.
C4_AllCategories ==
    (resume_reply # NoReply) =>
        /\ resume_data.t = "dict"
        /\ DOMAIN resume_data.v = Categories
        /\ \A c \in Categories : resume_data.v[c].t = "list"
        /\ (resume_reply.syntax = "invalid" => resume_data = EmptyTemplate)
        /\ cl_exc # "KeyError"

(***************************************************************************)
(* src/yt_assist.py, chunk_text (lines 43-48):                             *)
(* RecursiveCharacterTextSplitter(chunk_size=1000, chunk_overlap=150)      *)
(* .split_text(text), separators "\n\n", "\n", " ", "", the separator kept  *)
(* in front of the split that follows it, chunks stripped of whitespace.   *)
(*                                                                         *)
(* A text is the sequence of the lengths of its words; the words hold no   *)
(* whitespace and are joined by single spaces (line 40).  A split is       *)
(* [len, ws]: its length and how much whitespace it starts with.  A chunk  *)
(* is [start, len]: the slice of the text it holds.                        *)
(***************************************************************************)
ChunkSize == 1000
ChunkOverlap == 150

\* the splits of the text at its first separator found: at " " when it has
\* two words or more, else at "" (one split per character)
TopCount(text) ==
    IF Len(text) = 0 THEN 0 ELSE IF Len(text) = 1 THEN text[1] ELSE Len(text)

TopSplit(text, k) ==
    IF Len(text) = 1 THEN [len |-> 1, ws |-> 0]
    ELSE IF k = 1 THEN [len |-> text[1], ws |-> 0]
    ELSE [len |-> text[k] + 1, ws |-> 1]

\* the separators left for a split that is too long: "" when the text was
\* split at " ", none when it was split at ""
HasNewSeparators(text) == Len(text) >= 2

\* the k-th split of the list being merged: a run of the text's splits, or the
\* characters of one split that was too long
JobSplit(text, j, k) ==
    IF j.kind = "top" THEN TopSplit(text, j.lo + k - 1)
    ELSE [len |-> 1, ws |-> IF k <= TopSplit(text, j.lo).ws THEN 1 ELSE 0]

NoRun == [lo |-> 1, hi |-> 0, start |-> 0]
NoJob == [kind |-> "top", lo |-> 1, n |-> 0, start |-> 0]

\* _join_docs: the run joined and stripped, <<>> when nothing is left
JoinDocs(text, j, run, tot) ==
    LET ws == JobSplit(text, j, run.lo).ws
    IN  IF run.hi < run.lo \/ tot - ws = 0 THEN <<>>
        ELSE <<[start |-> run.start + ws, len |-> tot - ws]>>

\* the condition of the while loop of _merge_splits (separator length 0)
ShouldPopStride(tot, len) ==
    \/ tot > ChunkSize - ChunkOverlap
    \/ (tot + len > ChunkSize /\ tot > 0)

ShouldPop(tot, len) ==
    \/ tot > ChunkOverlap
    \/ (tot + len > ChunkSize /\ tot > 0)

SPIdle ==
    /\ sp_pc = "off"
    /\ si = [k |-> 1, start |-> 0]
    /\ good = NoRun
    /\ job = NoJob
    /\ mi = 1
    /\ cur = NoRun
    /\ total = 0
    /\ docs = <<>>
    /\ final_chunks = <<>>

\* split_text is called
SPBegin ==
    /\ sp_pc' = "split"
    /\ si' = [k |-> 1, start |-> 0]
    /\ good' = NoRun
    /\ job' = NoJob
    /\ mi' = 1
    /\ cur' = NoRun
    /\ total' = 0
    /\ docs' = <<>>
    /\ final_chunks' = <<>>

\* _merge_splits is called on a list of splits
MergeBegin(j) ==
    /\ job' = j
    /\ mi' = 1
    /\ cur' = [lo |-> 1, hi |-> 0, start |-> j.start]
    /\ total' = 0
    /\ docs' = <<>>
    /\ sp_pc' = "merge"

\* _split_text: one turn of the loop over the splits
SplitNext ==
    /\ sp_pc = "split"
    /\ si.k <= TopCount(transcript)
    /\ LET s == TopSplit(transcript, si.k)
           next == [k |-> si.k + 1, start |-> si.start + s.len]
       IN  IF s.len < ChunkSize
           THEN /\ good' = IF good.hi < good.lo
                           THEN [lo |-> si.k, hi |-> si.k, start |-> si.start]
                           ELSE [good EXCEPT !.hi = si.k]
                /\ si' = next
                /\ UNCHANGED <<sp_pc, job, mi, cur, total, docs, final_chunks>>
           ELSE IF good.hi >= good.lo
           THEN \* the good splits so far are merged first
                /\ MergeBegin([kind |-> "top", lo |-> good.lo,
                               n |-> good.hi - good.lo + 1, start |-> good.start])
                /\ good' = NoRun
                /\ UNCHANGED <<si, final_chunks>>
           ELSE IF ~HasNewSeparators(transcript)
           THEN /\ final_chunks' = Append(final_chunks, [start |-> si.start, len |-> s.len])
                /\ si' = next
                /\ UNCHANGED <<sp_pc, good, job, mi, cur, total, docs>>
           ELSE \* split again at "": its characters, all shorter than the chunk
                \* size, are merged
                /\ MergeBegin([kind |-> "chars", lo |-> si.k, n |-> s.len,
                               start |-> si.start])
                /\ si' = next
                /\ UNCHANGED <<good, final_chunks>>
    /\ UNCHANGED <<cl_vars, yt_vars>>

\* _split_text: after the loop
SplitEnd ==
    /\ sp_pc = "split"
    /\ si.k > TopCount(transcript)
    /\ IF good.hi >= good.lo
       THEN /\ MergeBegin([kind |-> "top", lo |-> good.lo,
                           n |-> good.hi - good.lo + 1, start |-> good.start])
            /\ good' = NoRun
            /\ UNCHANGED <<si, final_chunks>>
       ELSE /\ sp_pc' = "done"
            /\ UNCHANGED <<si, good, job, mi, cur, total, docs, final_chunks>>
    /\ UNCHANGED <<cl_vars, yt_vars>>

\* _merge_splits: one turn of the loop over the splits, up to the while loop
MergeNext ==
    /\ sp_pc = "merge"
    /\ mi <= job.n
    /\ LET d == JobSplit(transcript, job, mi)
       IN  IF total + d.len > ChunkSize /\ cur.hi >= cur.lo
           THEN /\ docs' = docs \o JoinDocs(transcript, job, cur, total)
                /\ sp_pc' = "pop"
                /\ UNCHANGED <<mi, cur, total>>
           ELSE /\ cur' = [cur EXCEPT !.hi = mi]
                /\ total' = total + d.len
                /\ mi' = mi + 1
                /\ UNCHANGED <<sp_pc, docs>>
    /\ UNCHANGED <<si, good, job, final_chunks>>
    /\ UNCHANGED <<cl_vars, yt_vars>>

\* _merge_splits: one turn of the while loop, or the append that follows it
Pop ==
    /\ sp_pc = "pop"
    /\ LET d == JobSplit(transcript, job, mi)
           first == JobSplit(transcript, job, cur.lo)
       IN  IF ShouldPop(total, d.len)
           THEN /\ total' = total - first.len
                /\ cur' = [cur EXCEPT !.lo = cur.lo + 1, !.start = cur.start + first.len]
                /\ UNCHANGED <<sp_pc, mi>>
           ELSE /\ cur' = [cur EXCEPT !.hi = mi]
                /\ total' = total + d.len
                /\ mi' = mi + 1
                /\ sp_pc' = "merge"
    /\ UNCHANGED <<si, good, job, docs, final_chunks>>
    /\ UNCHANGED <<cl_vars, yt_vars>>

\* _merge_splits: after the loop; its chunks are added to final_chunks
MergeEnd ==
    /\ sp_pc = "merge"
    /\ mi > job.n
    /\ docs' = docs \o JoinDocs(transcript, job, cur, total)
    /\ final_chunks' = final_chunks \o docs'
    /\ sp_pc' = "split"
    /\ UNCHANGED <<si, good, job, mi, cur, total>>
    /\ UNCHANGED <<cl_vars, yt_vars>>

SPNext == SplitNext \/ SplitEnd \/ MergeNext \/ Pop \/ MergeEnd

(***************************************************************************)
(* src/yt_assist.py: the functions                                         *)
(***************************************************************************)
\* A URL is what urlparse makes of it: [scheme, hostname, query, path], the
\* query a sequence of [key, value], hostname "" for None.
Chars_abc == <<"a", "b", "c">>
Chars_watch == <<"/", "w", "a", "t", "c", "h">>

Url(scheme, hostname, path, q) ==
    [scheme |-> scheme, hostname |-> hostname, path |-> path, query |-> q]

Urls ==
    <<Url("", "", <<>>, <<>>),
      Url("https", "www.youtube.com", Chars_watch, <<[key |-> "v", value |-> Chars_abc]>>),
      Url("https", "youtube.com", Chars_watch,
          <<[key |-> "t", value |-> <<"1">>], [key |-> "v", value |-> <<>>],
            [key |-> "v", value |-> Chars_abc]>>),
      Url("https", "youtu.be", <<"/">> \o Chars_abc, <<>>),
      Url("https", "youtu.be", <<"/">>, <<>>),
      Url("https", "youtu.be", <<>>, <<[key |-> "v", value |-> Chars_abc]>>),
      Url("https", "www.youtube.com", Chars_watch, <<>>),
      Url("https", "youtube.com", Chars_watch, <<[key |-> "v", value |-> <<>>]>>),
      Url("https", "vimeo.com", <<"/">> \o Chars_abc, <<[key |-> "v", value |-> Chars_abc]>>),
      Url("https", "m.youtube.com", Chars_watch, <<[key |-> "v", value |-> Chars_abc]>>),
      Url("", "", Chars_abc, <<>>)>>

\* not youtube_url (lines 157, 182)
IsEmptyText(url) ==
    url.scheme = "" /\ url.hostname = "" /\ url.path = <<>> /\ url.query = <<>>

\* parse_qs(query).get(key, [None])[0]: parse_qs drops the blank values
ParseQsFirst(q, key) ==
    LET hits == {i \in 1..Len(q) : q[i].key = key /\ q[i].value # <<>>}
    IN  IF hits = {} THEN PyNone
        ELSE PyStr(q[CHOOSE i \in hits : \A j \in hits : i <= j].value)

\* s.lstrip(c)
LStrip(s, c) ==
    LET keep == {i \in 1..Len(s) : s[i] # c}
    IN  IF keep = {} THEN <<>>
        ELSE SubSeq(s, CHOOSE i \in keep : \A j \in keep : i <= j, Len(s))

extract_video_id_any_host(url) ==
    IF url.hostname = "youtu.be" THEN PyStr(LStrip(url.path, "/"))
    ELSE ParseQsFirst(url.query, "v")

\* lines 23-34
extract_video_id(url) ==
    IF url.hostname \in {"www.youtube.com", "youtube.com"}
    THEN ParseQsFirst(url.query, "v")
    ELSE IF url.hostname = "youtu.be" THEN PyStr(LStrip(url.path, "/"))
    ELSE PyNone

\* truth value of None or a string
Truthy(x) == x.t = "str" /\ Len(x.v) > 0

build_faiss_index_empty(texts) == [built |-> TRUE, texts |-> <<>>]

\* lines 51-55: the index holds one record per chunk
build_faiss_index(texts) == [built |-> TRUE, texts |-> texts]

NoStore == [built |-> FALSE, texts |-> <<>>]

\* the rankings of n records by similarity, cut to the first k: the embedding
\* decides which
Rankings(n, k) ==
    LET m == IF k < n THEN k ELSE n
    IN  {r \in [1..m -> 1..n] : \A i, j \in 1..m : i # j => r[i] # r[j]}

retrieve_one_less(st, k) ==
    {[i \in 1..Len(r) |-> st.texts[r[i]]] : r \in Rankings(Len(st.texts), k - 1)}

\* lines 58-61 with lines 135, 147: the page contents of the k records most
\* similar to the query, the most similar first
retrieve_relevant_chunks(st, k) ==
    {[i \in 1..Len(r) |-> st.texts[r[i]]] : r \in Rankings(Len(st.texts), k)}

TopK == 5

SummaryQuery == "summary of full video"
QuizQuery == "quiz from full content"

NoQuestions == PyDict([questions |-> PyList(<<>>)])

generate_quiz_no_fallback(raw) == json_loads(raw).value

\* lines 122-125
generate_quiz_from_chunks(raw) ==
    LET r == json_loads(raw)
    IN  IF r.exc = "" THEN r.value ELSE NoQuestions

\* x[i] for an integer i >= 0: [exc, value]
Index(x, i) ==
    IF x.t = "dict" THEN [exc |-> "KeyError", value |-> PyNone]
    ELSE IF x.t \notin {"list", "str"} THEN [exc |-> "TypeError", value |-> PyNone]
    ELSE IF i + 1 > Len(x.v) THEN [exc |-> "IndexError", value |-> PyNone]
    ELSE [exc |-> "", value |-> PyNone]

Line(w, q) == [w |-> w, q |-> q]

\* lines 197-203 for question number i: what is shown until an expression
\* raises
RenderQuestion(q, i) ==
    LET choices == Subscript(q, "choices")
        choice(k) == IF choices.exc # "" THEN choices.exc ELSE Index(choices.value, k).exc
        excs == <<Subscript(q, "question").exc, choice(0), choice(1), choice(2),
                  choice(3), Subscript(q, "answer").exc>>
        shown == <<Line("markdown: question", i), Line("write: A", i), Line("write: B", i),
                   Line("write: C", i), Line("write: D", i), Line("markdown: answer", i),
                   Line("write: blank", i)>>
        exc == FirstExc(excs)
        n == IF exc = "" THEN 7
             ELSE (CHOOSE k \in 1..6 : excs[k] # "" /\ \A j \in 1..(k - 1) : excs[j] = "") - 1
    IN  [exc |-> exc, view |-> SubSeq(shown, 1, n)]

RECURSIVE RenderQuestions(_, _)
RenderQuestions(items, i) ==
    IF i > Len(items) THEN [exc |-> "", view |-> <<>>]
    ELSE LET r == RenderQuestion(items[i], i)
         IN  IF r.exc # "" THEN r
             ELSE LET rest == RenderQuestions(items, i + 1)
                  IN  [exc |-> rest.exc, view |-> r.view \o rest.view]

\* lines 194-203
RenderQuiz(quiz) ==
    LET head == <<Line("subheader: Quiz", 0)>>
        questions == Subscript(quiz, "questions")
        it == Iterate(questions.value)
        r == RenderQuestions(it.items, 1)
    IN  IF questions.exc # "" THEN [exc |-> questions.exc, view |-> head]
        ELSE IF it.exc # "" THEN [exc |-> it.exc, view |-> head]
        ELSE [exc |-> r.exc, view |-> head \o r.view]

\* lines 169-170
RenderSummary(summary) ==
    <<Line("subheader: Summary", 0), Line("write: summary", 0)>>

ExceptClauseSilent(view) == [view |-> view, pc |-> "done"]

\* lines 172-174, 205-207: except Exception
ExceptClause(view) ==
    [view |-> view \o <<Line("error: Error", 0), Line("info: hint", 0)>>, pc |-> "done"]

(***************************************************************************)
(* Inputs of the summarizer page                                           *)
(***************************************************************************)
MaxWords == 6
WordLen == 600

\* what fetch_transcript may return (lines 39-40): words joined by spaces
Transcripts == {[i \in 1..n |-> WordLen] : n \in 0..MaxWords}

Question(choices) ==
    PyDict([question |-> PyStr(<<"Q">>), choices |-> choices, answer |-> PyStr(<<"A">>)])

FourChoices == PyList(<<PyStr(<<"a">>), PyStr(<<"b">>), PyStr(<<"c">>), PyStr(<<"d">>)>>)
TwoChoices == PyList(<<PyStr(<<"a">>), PyStr(<<"b">>)>>)

\* what the quiz generation call may return: not JSON, JSON of the requested
\* shape, JSON of another shape
QuizReplies ==
    <<Malformed,
      Literal(NoQuestions),
      Literal(PyDict([questions |-> PyList(<<Question(FourChoices)>>)])),
      Literal(PyDict([questions |-> PyList(<<Question(FourChoices), Question(FourChoices)>>)])),
      Literal(PyDict([questions |-> PyList(<<Question(FourChoices), Question(TwoChoices)>>)])),
      Literal(PyDict([questions |-> PyList(<<PyDict([question |-> PyStr(<<"Q">>)])>>)])),
      Literal(PyDict([quiz |-> PyList(<<>>)])),
      Literal(PyDict([questions |-> PyNone])),
      Literal(PyList(<<>>))>>

SummaryReplies == <<Literal(PyStr(<<"s">>))>>

(***************************************************************************)
(* The summarizer page, lines 154-207.  Streamlit runs the script body     *)
(* once per button press; the names it binds are fresh in every run.       *)
(***************************************************************************)
YTIdle ==
    /\ yt_pc = "idle"
    /\ button = "none"
    /\ youtube_url = Urls[1]
    /\ video_id = PyNone
    /\ transcript = <<>>
    /\ chunks = <<>>
    /\ store = NoStore
    /\ query = ""
    /\ retrieved_texts = <<>>
    /\ reply = NoReply
    /\ result = PyNone
    /\ yt_view = <<>>
    /\ steps = <<>>
    /\ completed = <<>>
    /\ failed = ""

\* lines 156-163, 181-188: a button is pressed
YTPress(btn, url) ==
    /\ yt_pc \in {"idle", "done"}
    /\ button' = btn
    /\ youtube_url' = url
    /\ transcript' = <<>>
    /\ chunks' = <<>>
    /\ store' = NoStore
    /\ query' = ""
    /\ retrieved_texts' = <<>>
    /\ reply' = NoReply
    /\ result' = PyNone
    /\ steps' = <<>>
    /\ completed' = <<>>
    /\ failed' = ""
    /\ IF IsEmptyText(url)
       THEN /\ yt_view' = <<Line("error: Please enter a YouTube URL.", 0)>>
            /\ video_id' = PyNone
            /\ yt_pc' = "done"
       ELSE /\ video_id' = extract_video_id(url)
            /\ IF ~Truthy(video_id')
               THEN /\ yt_view' = <<Line("error: Invalid YouTube URL.", 0)>>
                    /\ yt_pc' = "done"
               ELSE /\ yt_view' = <<>>
                    /\ yt_pc' = "fetch"
    /\ UNCHANGED <<cl_vars, sp_vars>>

\* a pipeline step raises: the handler's except clause runs
Raise(step) ==
    /\ failed' = step
    /\ yt_view' = ExceptClause(yt_view).view
    /\ yt_pc' = ExceptClause(yt_view).pc

\* lines 130, 142
YTFetch(raises, text) ==
    /\ yt_pc = "fetch"
    /\ steps' = Append(steps, "fetch")
    /\ IF raises
       THEN /\ Raise("fetch")
            /\ UNCHANGED <<transcript, completed>>
       ELSE /\ transcript' = text
            /\ completed' = Append(completed, "fetch")
            /\ yt_pc' = "chunk"
            /\ UNCHANGED <<failed, yt_view>>
    /\ UNCHANGED <<button, youtube_url, video_id, chunks, store, query,
                   retrieved_texts, reply, result>>
    /\ UNCHANGED <<cl_vars, sp_vars>>

\* lines 131, 143: chunk_text is called
YTChunk(raises) ==
    /\ yt_pc = "chunk"
    /\ sp_pc = "off"
    /\ steps' = Append(steps, "chunk")
    /\ IF raises
       THEN /\ Raise("chunk")
            /\ UNCHANGED sp_vars
       ELSE /\ SPBegin
            /\ UNCHANGED <<failed, yt_view, yt_pc>>
    /\ UNCHANGED <<button, youtube_url, video_id, transcript, chunks, store, query,
                   retrieved_texts, reply, result, completed>>
    /\ UNCHANGED cl_vars

\* lines 131, 143: chunk_text returns
YTChunked ==
    /\ yt_pc = "chunk"
    /\ sp_pc = "done"
    /\ chunks' = final_chunks
    /\ completed' = Append(completed, "chunk")
    /\ yt_pc' = "build"
    /\ sp_pc' = "off"
    /\ UNCHANGED <<si, good, job, mi, cur, total, docs, final_chunks>>
    /\ UNCHANGED <<button, youtube_url, video_id, transcript, store, query,
                   retrieved_texts, reply, result, yt_view, steps, failed>>
    /\ UNCHANGED cl_vars

\* lines 132, 144
YTBuild(raises) ==
    /\ yt_pc = "build"
    /\ steps' = Append(steps, "build")
    /\ IF raises
       THEN /\ Raise("build")
            /\ UNCHANGED <<store, completed>>
       ELSE /\ store' = build_faiss_index(chunks)
            /\ completed' = Append(completed, "build")
            /\ yt_pc' = "retrieve"
            /\ UNCHANGED <<failed, yt_view>>
    /\ UNCHANGED <<button, youtube_url, video_id, transcript, chunks, query,
                   retrieved_texts, reply, result>>
    /\ UNCHANGED <<cl_vars, sp_vars>>

\* lines 134-135, 146-147
YTRetrieve(raises) ==
    /\ yt_pc = "retrieve"
    /\ steps' = Append(steps, "retrieve")
    /\ query' = IF button = "summarize" THEN SummaryQuery ELSE QuizQuery
    /\ IF raises
       THEN /\ Raise("retrieve")
            /\ UNCHANGED <<retrieved_texts, completed>>
       ELSE /\ retrieved_texts' \in retrieve_relevant_chunks(store, TopK)
            /\ completed' = Append(completed, "retrieve")
            /\ yt_pc' = "generate"
            /\ UNCHANGED <<failed, yt_view>>
    /\ UNCHANGED <<button, youtube_url, video_id, transcript, chunks, store,
                   reply, result>>
    /\ UNCHANGED <<cl_vars, sp_vars>>

\* lines 137, 149: summarize_chunks returns the text as it is,
\* generate_quiz_from_chunks parses it
YTGenerate(raises, text) ==
    /\ yt_pc = "generate"
    /\ steps' = Append(steps, "generate")
    /\ IF raises
       THEN /\ Raise("generate")
            /\ UNCHANGED <<reply, result, completed>>
       ELSE /\ reply' = text
            /\ result' = IF button = "summarize" THEN text.denotes
                          ELSE generate_quiz_from_chunks(text)
            /\ completed' = Append(completed, "generate")
            /\ yt_pc' = "render"
            /\ UNCHANGED <<failed, yt_view>>
    /\ UNCHANGED <<button, youtube_url, video_id, transcript, chunks, store, query,
                   retrieved_texts>>
    /\ UNCHANGED <<cl_vars, sp_vars>>

\* lines 169-170, 194-203
YTRender ==
    /\ yt_pc = "render"
    /\ IF button = "summarize"
       THEN /\ yt_view' = yt_view \o RenderSummary(result)
            /\ yt_pc' = "done"
            /\ UNCHANGED failed
       ELSE LET r == RenderQuiz(result)
            IN  IF r.exc = ""
                THEN /\ yt_view' = yt_view \o r.view
                     /\ yt_pc' = "done"
                     /\ UNCHANGED failed
                ELSE /\ failed' = "render"
                     /\ yt_view' = ExceptClause(yt_view \o r.view).view
                     /\ yt_pc' = ExceptClause(yt_view \o r.view).pc
    /\ UNCHANGED <<button, youtube_url, video_id, transcript, chunks, store, query,
                   retrieved_texts, reply, result, steps, completed>>
    /\ UNCHANGED <<cl_vars, sp_vars>>

YTNext ==
    \/ \E btn \in {"summarize", "quiz"}, u \in 1..Len(Urls) : YTPress(btn, Urls[u])
    \/ \E text \in Transcripts : YTFetch(FALSE, text)
    \/ YTFetch(TRUE, <<>>)
    \/ \E raises \in BOOLEAN : YTChunk(raises)
    \/ YTChunked
    \/ \E raises \in BOOLEAN : YTBuild(raises)
    \/ \E raises \in BOOLEAN : YTRetrieve(raises)
    \/ \E i \in 1..Len(SummaryReplies) :
          button = "summarize" /\ YTGenerate(FALSE, SummaryReplies[i])
    \/ \E i \in 1..Len(QuizReplies) :
          button = "quiz" /\ YTGenerate(FALSE, QuizReplies[i])
    \/ YTGenerate(TRUE, Malformed)
    \/ YTRender

(***************************************************************************)
(* chunk_text on its own: transcripts of TranscriptLen characters          *)
(***************************************************************************)
TranscriptLen == 3500

\* the words of a text of n characters whose words have w characters, the
\* last word taking what is left
UniformText(w, n) ==
    LET full == (n + 1) \div (w + 1)
        left == (n + 1) % (w + 1)
    IN  IF full = 0 THEN <<n>>
        ELSE IF left = 0 THEN [i \in 1..full |-> w]
        ELSE IF left = 1 THEN [i \in 1..full |-> IF i = full THEN w + 1 ELSE w]
        ELSE [i \in 1..(full + 1) |-> IF i = full + 1 THEN left - 1 ELSE w]

WordLens == {3, 10, 149, 200, 400, 600, 999, 1100, 2000, 3500}

ChunkInit ==
    /\ \E w \in WordLens : transcript = UniformText(w, TranscriptLen)
    /\ yt_pc = "chunk"
    /\ button = "none"
    /\ youtube_url = Urls[1]
    /\ video_id = PyNone
    /\ chunks = <<>>
    /\ store = NoStore
    /\ query = ""
    /\ retrieved_texts = <<>>
    /\ reply = NoReply
    /\ result = PyNone
    /\ yt_view = <<>>
    /\ steps = <<>>
    /\ completed = <<>>
    /\ failed = ""
    /\ sp_pc = "split"
    /\ si = [k |-> 1, start |-> 0]
    /\ good = NoRun
    /\ job = NoJob
    /\ mi = 1
    /\ cur = NoRun
    /\ total = 0
    /\ docs = <<>>
    /\ final_chunks = <<>>

(***************************************************************************)
(* The specifications                                                      *)
(***************************************************************************)
InitCL == CLInit /\ YTIdle /\ SPIdle

SpecCL == InitCL /\ [][CLNext]_vars

YTAllNext == YTNext \/ SPNext

SpecYT == InitCL /\ [][YTAllNext]_vars

InitChunk == CLInit /\ ChunkInit

SpecChunk == InitChunk /\ [][SPNext]_vars

(***************************************************************************)
(* Claims about the summarizer page (SpecYT)                               *)
(***************************************************************************)
\* C5: when the output of the quiz generation call is not JSON,
\* generate_quiz_from_chunks returns a quiz with no questions and raises
\* nothing, and the handler shows the quiz heading, no question and no error.
C5_QuizFallback ==
    (button = "quiz" /\ reply.syntax = "invalid") =>
        /\ yt_pc \in {"render", "done"}
        /\ result = NoQuestions
        /\ failed = ""
        /\ (yt_pc = "done" => yt_view = <<Line("subheader: Quiz", 0)>>)

C5_Witness ==
    button = "quiz" /\ reply.syntax = "invalid" /\ yt_pc = "done"

\* the URL names no video: another host, or no video id in it
NoVideoId(url) ==
    \/ url.hostname \notin {"youtube.com", "www.youtube.com", "youtu.be"}
    \/ /\ url.hostname \in {"youtube.com", "www.youtube.com"}
       /\ \A i \in 1..Len(url.query) : url.query[i].key = "v" => url.query[i].value = <<>>
    \/ /\ url.hostname = "youtu.be"
       /\ \A i \in 1..Len(url.path) : url.path[i] = "/"

IsError(line) ==
    line \in {Line("error: Please enter a YouTube URL.", 0),
              Line("error: Invalid YouTube URL.", 0)}

\* C6: in both handlers, when the URL field is empty or the URL names no
\* video, an error message is shown and no pipeline step is started for that
\* press: no transcript fetch, no chunking, no index build, no generation.
C6_BadUrlStartsNothing ==
    (button # "none" /\ (IsEmptyText(youtube_url) \/ NoVideoId(youtube_url))) =>
        /\ yt_pc = "done"
        /\ Len(yt_view) = 1 /\ IsError(yt_view[1])
        /\ steps = <<>>
        /\ sp_pc = "off"
        /\ transcript = <<>> /\ chunks = <<>> /\ store = NoStore
        /\ reply = NoReply /\ result = PyNone

C6_Witness ==
    /\ button = "quiz"
    /\ youtube_url.hostname = "vimeo.com"
    /\ yt_pc = "done"
    /\ yt_view = <<Line("error: Invalid YouTube URL.", 0)>>

\* every question of the quiz is on the page, to its last line
QuizShown ==
    /\ result.t = "dict"
    /\ "questions" \in DOMAIN result.v
    /\ result.v["questions"].t = "list"
    /\ \A i \in 1..Len(result.v["questions"].v) : Line("write: blank", i) \in Range(yt_view)

\* C7: an exception raised by a step of a run (fetch, chunking, index build,
\* retrieval, generation, rendering of the quiz) is caught by the handler: an
\* error message and a hint are shown, no summary and no complete quiz is
\* shown, the step is not run again, and the handler finishes.
C7_ExceptionsCaught ==
    (failed # "") =>
        /\ yt_pc = "done"
        /\ Len(yt_view) >= 2
        /\ yt_view[Len(yt_view) - 1] = Line("error: Error", 0)
        /\ yt_view[Len(yt_view)] = Line("info: hint", 0)
        /\ Line("subheader: Summary", 0) \notin Range(yt_view)
        /\ ~QuizShown
        /\ (failed # "render" =>
               /\ Len(yt_view) = 2
               /\ Count(failed, steps) = 1
               /\ failed \notin Range(completed)
               /\ steps[Len(steps)] = failed)

\* a quiz whose second question is malformed: the first is shown, then the error
C7_Witness ==
    /\ failed = "render"
    /\ Line("write: blank", 1) \in Range(yt_view)
    /\ yt_pc = "done"

Retrieved == "retrieve" \in Range(completed)

\* C8 as stated: with at most 5 chunks, retrieval passes to the generation
\* step all chunks, each once, in their original order.
C8_OriginalOrder ==
    (Retrieved /\ Len(chunks) <= TopK) => retrieved_texts = chunks

\* C8 as amended: with at most 5 chunks, retrieval passes to the generation
\* step all chunks, each once, in the order of their similarity to the query.
C8_AllChunksOnce ==
    (Retrieved /\ Len(chunks) <= TopK) =>
        /\ Len(retrieved_texts) = Len(chunks)
        /\ \A i \in 1..Len(chunks) :
               Count(chunks[i], retrieved_texts) = Count(chunks[i], chunks)

C8_Witness ==
    /\ Retrieved
    /\ Len(chunks) = TopK
    /\ retrieved_texts # chunks
    /\ yt_pc = "done"

ExpectedSteps == <<"fetch", "chunk", "build", "retrieve", "generate">>

IsPrefix(a, b) == Len(a) <= Len(b) /\ SubSeq(b, 1, Len(a)) = a

\* C9: a run performs fetch, chunk, index build, top-5 retrieval with the
\* task's query, generation in this order, each at most once; a step starts
\* only after the one before completed; retrieval uses the index built in
\* this run from this run's chunks, nothing of an earlier run.
C9_StepOrder ==
    /\ IsPrefix(steps, ExpectedSteps)
    /\ IsPrefix(completed, steps)
    /\ Len(steps) <= Len(completed) + 1
    /\ (Len(steps) > Len(completed) /\ steps[Len(steps)] # "chunk") =>
           failed = steps[Len(steps)]
    /\ "chunk" \notin Range(completed) => chunks = <<>>
    /\ "build" \notin Range(completed) => store = NoStore
    /\ "build" \in Range(completed) => store = [built |-> TRUE, texts |-> chunks]
    /\ "retrieve" \in Range(steps) =>
           query = IF button = "summarize" THEN SummaryQuery ELSE QuizQuery
    /\ "retrieve" \notin Range(completed) => retrieved_texts = <<>>
    /\ Retrieved =>
           /\ Len(retrieved_texts) = IF Len(chunks) < TopK THEN Len(chunks) ELSE TopK
           /\ Range(retrieved_texts) \subseteq Range(chunks)
    /\ "generate" \notin Range(completed) => reply = NoReply /\ result = PyNone

\* a complete run over a transcript of more chunks than retrieval returns
C9_Witness ==
    /\ yt_pc = "done"
    /\ completed = ExpectedSteps
    /\ Len(chunks) > TopK
    /\ failed = ""

(***************************************************************************)
(* Claims about chunk_text (SpecChunk)                                     *)
(***************************************************************************)
Chunked == sp_pc = "done"

\* C10 as stated: a transcript of 3500 characters yields exactly 5 chunks,
\* each of at most 1000 characters.
C10_FiveChunks ==
    Chunked =>
        /\ Len(final_chunks) = 5
        /\ \A i \in 1..Len(final_chunks) : final_chunks[i].len <= ChunkSize

\* C10 as amended: a transcript of 3500 characters made of words joined by
\* single spaces yields at least 4 chunks, exactly 4 when it has no separator
\* or no word longer than 10 characters; the chunks have at most 1000
\* characters and reach from the start of the transcript to its end.
C10_FourChunks ==
    Chunked =>
        /\ Len(final_chunks) >= 4
        /\ Len(transcript) = 1 => Len(final_chunks) = 4
        /\ (\A i \in 1..Len(transcript) : transcript[i] <= 10) => Len(final_chunks) = 4
        /\ \A i \in 1..Len(final_chunks) : final_chunks[i].len <= ChunkSize
        /\ final_chunks[1].start = 0
        /\ final_chunks[Len(final_chunks)].start + final_chunks[Len(final_chunks)].len
               = TranscriptLen

\* the transcript without a separator: windows of 1000 every 850 characters
C10_Witness ==
    /\ Chunked
    /\ transcript = <<TranscriptLen>>
    /\ Len(final_chunks) = 4
    /\ \A i \in 1..4 : final_chunks[i].start = (i - 1) * (ChunkSize - ChunkOverlap)
=============================================================================
